---- MODULE Spec2Model ----
(***************************************************************************)
(* Model of src/facilities_management.py: the FacilitiesManagement data    *)
(* access layer over three SQLite tables (buildings, rooms, assets).       *)
(*                                                                         *)
(* A table is a sequence of rows in rowid order; a row is a tuple in       *)
(* column-declaration order, as the CREATE TABLE statements declare it.    *)
(* A record (Building, Room, Asset) is built from a row positionally, as   *)
(* the dataclass constructors are applied to row tuples.                   *)
(* Timestamps (datetime.now().isoformat()) are instants of a clock.        *)
(* An optional argument is <<>> for None and <<v>> for a given value v.    *)
(***************************************************************************)
EXTENDS Integers, Sequences, FiniteSets, TLC

\* ---------------------------------------------------------------- bounds
\* the number of rows inserted plus the number of clock ticks; calls that
\* insert nothing (failed calls, queries) are not bounded
MaxSteps == 4

\* ---------------------------------------------------------------- inputs
\* add_building(name, address="", floors=1, sqft=0, building_type="office")
BuildingNames == {"HQ", "Annex", ""}
BuildingInputs ==
    { [name |-> "HQ", address |-> "1 Main St", floors |-> 5, sqft |-> 900,
       building_type |-> "campus"],
      [name |-> "Annex", address |-> "", floors |-> 1, sqft |-> 0,
       building_type |-> "office"],
      [name |-> "", address |-> "", floors |-> 1, sqft |-> 0,
       building_type |-> "office"] }

\* add_room(building_name, room_name, floor=1, capacity=10, room_type="office")
RoomInputs ==
    { [room_name |-> "Room 101", floor |-> 2, capacity |-> 20,
       room_type |-> "conference"],
      [room_name |-> "Lobby", floor |-> 1, capacity |-> 10,
       room_type |-> "office"] }

\* add_asset(room_id, name, asset_type="equipment", serial_number="",
\*           purchase_date="", condition="good", notes="")
\* room ids: 0, the id of the first room, and an id no room ever has
RoomIds == {0, 1, MaxSteps + 1}
AssetInputs ==
    { [room_id |-> 1, name |-> "Projector", asset_type |-> "av",
       serial_number |-> "SN-1", purchase_date |-> "2024-01-01",
       condition |-> "fair", notes |-> "ceiling"],
      [room_id |-> 0, name |-> "Desk", asset_type |-> "equipment",
       serial_number |-> "", purchase_date |-> "", condition |-> "good",
       notes |-> ""],
      [room_id |-> MaxSteps + 1, name |-> "Desk", asset_type |-> "equipment",
       serial_number |-> "", purchase_date |-> "", condition |-> "good",
       notes |-> ""] }

\* list_rooms(building_name=None), list_assets(room_id=None)
None == <<>>
Some(v) == <<v>>
BuildingFilters == {None} \cup { Some(n) : n \in BuildingNames }
RoomIdFilters == {None} \cup { Some(i) : i \in RoomIds }

VARIABLES
    buildings,   \* rows of table buildings, in rowid order
    rooms,       \* rows of table rooms, in rowid order
    assets,      \* rows of table assets, in rowid order
    seq,         \* sqlite_sequence: table name -> largest rowid ever assigned
    now,         \* the wall clock read by datetime.now()
    call,        \* the last call made: [op, ...arguments]
    ret,         \* its outcome: [status, value]
    created      \* history: per table, the successful add_* calls in call order,
                 \* each with the record it returned

vars == <<buildings, rooms, assets, seq, now, call, ret, created>>
tables == <<buildings, rooms, assets>>

Steps == Len(buildings) + Len(rooms) + Len(assets) + now

\* ------------------------------------------------------------- records
\* Building(*r): positional, fields in dataclass declaration order
Building(r) ==
    [id |-> r[1], name |-> r[2], address |-> r[3], floors |-> r[4],
     total_sqft |-> r[5], building_type |-> r[6], created_at |-> r[7],
     active |-> r[8]]

\* Room(*r)
Room(r) ==
    [id |-> r[1], building_id |-> r[2], name |-> r[3], floor |-> r[4],
     capacity |-> r[5], room_type |-> r[6], status |-> r[7],
     created_at |-> r[8]]

\* Asset(*r)
Asset(r) ==
    [id |-> r[1], room_id |-> r[2], name |-> r[3], asset_type |-> r[4],
     serial_number |-> r[5], purchase_date |-> r[6], condition |-> r[7],
     last_inspected |-> r[8], notes |-> r[9]]

\* [Building(*r) for r in rows]
Buildings(rows) == [i \in 1 .. Len(rows) |-> Building(rows[i])]

\* [Room(*r) for r in rows]
Rooms(rows) == [i \in 1 .. Len(rows) |-> Room(rows[i])]

\* [Asset(*r) for r in rows]
Assets(rows) == [i \in 1 .. Len(rows) |-> Asset(rows[i])]

Range(s) == { s[i] : i \in 1 .. Len(s) }

MaxOf(S) == CHOOSE x \in S : \A y \in S : y <= x

\* --------------------------------------------------------- the storage
\* a variant of NextRowid that hands out the largest rowid again
NextRowidNoIncrement(rows, last) ==
    MaxOf({last} \cup { rows[i][1] : i \in 1 .. Len(rows) })

\* INTEGER PRIMARY KEY AUTOINCREMENT: one more than the largest rowid the
\* table has ever held (sqlite_sequence) or holds now.
NextRowid(rows, last) ==
    MaxOf({last} \cup { rows[i][1] : i \in 1 .. Len(rows) }) + 1

\* a variant of UniqueViolation for a name column declared without UNIQUE
UniqueViolationNotDeclared(rows, name) == FALSE

\* name TEXT NOT NULL UNIQUE: would a row with this name violate it?
UniqueViolation(rows, name) ==
    \E i \in 1 .. Len(rows) : rows[i][2] = name

\* a variant of BuildingRow with the address and building_type values
\* bound in each other's place
BuildingRowSwapped(id, name, a, t) ==
    <<id, name, a.building_type, a.floors, a.sqft, a.address, t, 1>>

\* INSERT INTO buildings (name,address,floors,total_sqft,building_type,created_at):
\* the row stored, id from the rowid and active from its DEFAULT 1
BuildingRow(id, name, a, t) ==
    <<id, name, a.address, a.floors, a.sqft, a.building_type, t, 1>>

\* a variant of RoomRow that binds the new rowid as building_id
RoomRowOwnId(id, building_id, name, a, t) ==
    <<id, id, name, a.floor, a.capacity, a.room_type, "available", t>>

\* INSERT INTO rooms (building_id,name,floor,capacity,room_type,created_at):
\* status from its DEFAULT 'available'
RoomRow(id, building_id, name, a, t) ==
    <<id, building_id, name, a.floor, a.capacity, a.room_type, "available", t>>

\* INSERT INTO assets (room_id,name,asset_type,serial_number,purchase_date,
\*                     condition,last_inspected,notes)
AssetRow(id, room_id, name, a, t) ==
    <<id, room_id, name, a.asset_type, a.serial_number, a.purchase_date,
      a.condition, t, a.notes>>

\* a variant of ForeignKeyViolation for a connection that enforces the
\* reference (PRAGMA foreign_keys=ON)
ForeignKeyViolationEnforced(rows, room_id) ==
    \A i \in 1 .. Len(rows) : rows[i][1] # room_id

\* REFERENCES rooms(id) on assets.room_id: the connection never issues
\* PRAGMA foreign_keys=ON, so SQLite does not enforce the reference.
ForeignKeyViolation(rows, room_id) == FALSE

\* a variant of SelectBuildingId whose query has no WHERE clause
SelectBuildingIdNoWhere(rows, name) ==
    IF Len(rows) = 0 THEN <<>> ELSE <<rows[1][1]>>

\* SELECT id FROM buildings WHERE name=?  .fetchone(): the first matching
\* row as a 1-tuple, or None (<<>>)
SelectBuildingId(rows, name) ==
    LET hit == SelectSeq(rows, LAMBDA r : r[2] = name)
    IN  IF Len(hit) = 0 THEN <<>> ELSE <<hit[1][1]>>

Ok(v) == [status |-> "ok", value |-> v]
\* an exception leaving the method: its type and message
Raise(e, msg) == [status |-> e, value |-> msg]

\* ---------------------------------------------------------------- Init
\* __init__ / _init_db on a fresh database file: three empty tables
Init ==
    /\ buildings = <<>>
    /\ rooms = <<>>
    /\ assets = <<>>
    /\ seq = [buildings |-> 0, rooms |-> 0, assets |-> 0]
    /\ now = 0
    /\ call = [op |-> "__init__"]
    /\ ret = Ok(<<>>)
    /\ created = [buildings |-> <<>>, rooms |-> <<>>, assets |-> <<>>]

\* time passes between (and within) calls
Tick ==
    /\ Steps < MaxSteps
    /\ now' = now + 1
    /\ UNCHANGED <<buildings, rooms, assets, seq, call, ret, created>>

\* ------------------------------------------------------------ mutators
add_building(name, a) ==
    /\ call' = [op |-> "add_building", name |-> name, args |-> a]
    /\ IF UniqueViolation(buildings, name)
       THEN \* sqlite3.IntegrityError propagates; the with block rolls back
            /\ ret' = Raise("IntegrityError", <<"UNIQUE constraint failed: buildings.name">>)
            /\ UNCHANGED <<buildings, rooms, assets, seq, now, created>>
       ELSE LET id == NextRowid(buildings, seq.buildings)
                rec == [id |-> id, name |-> name, address |-> a.address,
                        floors |-> a.floors, total_sqft |-> a.sqft,
                        building_type |-> a.building_type,
                        created_at |-> now, active |-> 1]
            IN  /\ Steps < MaxSteps
                /\ buildings' = Append(buildings, BuildingRow(id, name, a, now))
                /\ seq' = [seq EXCEPT !.buildings = id]
                /\ ret' = Ok(rec)
                /\ created' = [created EXCEPT !.buildings = Append(@, [call |-> call', rec |-> rec])]
                /\ UNCHANGED <<rooms, assets, now>>

add_room(building_name, room_name, a) ==
    /\ call' = [op |-> "add_room", building_name |-> building_name,
                room_name |-> room_name, args |-> a]
    /\ LET b == SelectBuildingId(buildings, building_name)
       IN  IF b = <<>>
           THEN /\ ret' = Raise("ValueError", <<"Building '", building_name, "' not found">>)
                /\ UNCHANGED <<buildings, rooms, assets, seq, now, created>>
           ELSE LET id == NextRowid(rooms, seq.rooms)
                    rec == [id |-> id, building_id |-> b[1], name |-> room_name,
                            floor |-> a.floor, capacity |-> a.capacity,
                            room_type |-> a.room_type, status |-> "available",
                            created_at |-> now]
                IN  /\ Steps < MaxSteps
                    /\ rooms' = Append(rooms, RoomRow(id, b[1], room_name, a, now))
                    /\ seq' = [seq EXCEPT !.rooms = id]
                    /\ ret' = Ok(rec)
                    /\ created' = [created EXCEPT !.rooms = Append(@, [call |-> call', rec |-> rec])]
                    /\ UNCHANGED <<buildings, assets, now>>

add_asset(room_id, name, a) ==
    /\ call' = [op |-> "add_asset", room_id |-> room_id, name |-> name, args |-> a]
    /\ IF ForeignKeyViolation(rooms, room_id)
       THEN /\ ret' = Raise("IntegrityError", <<"FOREIGN KEY constraint failed">>)
            /\ UNCHANGED <<buildings, rooms, assets, seq, now, created>>
       ELSE LET id == NextRowid(assets, seq.assets)
                rec == [id |-> id, room_id |-> room_id, name |-> name,
                        asset_type |-> a.asset_type,
                        serial_number |-> a.serial_number,
                        purchase_date |-> a.purchase_date,
                        condition |-> a.condition, last_inspected |-> now,
                        notes |-> a.notes]
            IN  /\ Steps < MaxSteps
                /\ assets' = Append(assets, AssetRow(id, room_id, name, a, now))
                /\ seq' = [seq EXCEPT !.assets = id]
                /\ ret' = Ok(rec)
                /\ created' = [created EXCEPT !.assets = Append(@, [call |-> call', rec |-> rec])]
                /\ UNCHANGED <<buildings, rooms, now>>


\* ------------------------------------------------------------- queries
\* a variant of TruthyStr that tests `is not None`
TruthyStrIsNotNone(o) == o # None

\* `if building_name:` on an Optional[str]
TruthyStr(o) == o # None /\ o[1] # ""

\* a variant of TruthyInt that tests `is not None`
TruthyIntIsNotNone(o) == o # None

\* `if room_id:` on an Optional[int]
TruthyInt(o) == o # None /\ o[1] # 0

\* a variant of ListBuildings that scans the table backwards
ListBuildingsDescending(rows) ==
    LET hit == SelectSeq(rows, LAMBDA r : r[8] = 1)
    IN  [i \in 1 .. Len(hit) |-> Building(hit[Len(hit) + 1 - i])]

\* SELECT * FROM buildings WHERE active=1  (a table scan, in rowid order)
ListBuildings(rows) ==
    Buildings(SelectSeq(rows, LAMBDA r : r[8] = 1))

ListRooms(brows, rrows, building_name) ==
    IF TruthyStr(building_name)
    THEN LET b == SelectBuildingId(brows, building_name[1])
         IN  IF b = <<>>
             THEN <<>>
             ELSE Rooms(SelectSeq(rrows, LAMBDA r : r[2] = b[1]))
    ELSE Rooms(rrows)

ListAssets(arows, room_id) ==
    IF TruthyInt(room_id)
    THEN Assets(SelectSeq(arows, LAMBDA r : r[2] = room_id[1]))
    ELSE Assets(arows)

\* a variant of Status that counts assets through a join with rooms
StatusJoined(brows, rrows, arows) ==
    [active_buildings |-> Len(SelectSeq(brows, LAMBDA r : r[8] = 1)),
     total_rooms |-> Len(rrows),
     available_rooms |-> Len(SelectSeq(rrows, LAMBDA r : r[7] = "available")),
     total_assets |->
         Len(SelectSeq(arows,
                       LAMBDA r : \E i \in 1 .. Len(rrows) : rrows[i][1] = r[2])),
     db_path |-> "facilities-management.db"]

\* four independent SELECT COUNT(*) queries
Status(brows, rrows, arows) ==
    [active_buildings |-> Len(SelectSeq(brows, LAMBDA r : r[8] = 1)),
     total_rooms |-> Len(rrows),
     available_rooms |-> Len(SelectSeq(rrows, LAMBDA r : r[7] = "available")),
     total_assets |-> Len(arows),
     db_path |-> "facilities-management.db"]

\* asdict() of every row of every table, no filtering
ExportData(brows, rrows, arows, t) ==
    [buildings |-> Buildings(brows),
     rooms |-> Rooms(rrows),
     assets |-> Assets(arows),
     exported_at |-> t]

Query(c, v) ==
    /\ call' = c
    /\ ret' = Ok(v)
    /\ UNCHANGED <<buildings, rooms, assets, seq, now, created>>

list_buildings == Query([op |-> "list_buildings"], ListBuildings(buildings))

list_rooms(building_name) ==
    Query([op |-> "list_rooms", building_name |-> building_name],
          ListRooms(buildings, rooms, building_name))

list_assets(room_id) ==
    Query([op |-> "list_assets", room_id |-> room_id], ListAssets(assets, room_id))

status == Query([op |-> "status"], Status(buildings, rooms, assets))

export_data == Query([op |-> "export_data"], ExportData(buildings, rooms, assets, now))

AddBuilding == \E a \in BuildingInputs : add_building(a.name, a)
AddRoom == \E bn \in BuildingNames, a \in RoomInputs : add_room(bn, a.room_name, a)
AddAsset == \E a \in AssetInputs : add_asset(a.room_id, a.name, a)

ListRoomsCall == \E f \in BuildingFilters : list_rooms(f)
ListAssetsCall == \E f \in RoomIdFilters : list_assets(f)

Next ==
    \/ Tick
    \/ AddBuilding
    \/ AddRoom
    \/ AddAsset
    \/ list_buildings
    \/ ListRoomsCall
    \/ ListAssetsCall
    \/ status
    \/ export_data

Spec == Init /\ [][Next]_vars
\* ======================================================== properties
\* the records of a table, as the queries build them
BuildingRecs == { Building(buildings[i]) : i \in 1 .. Len(buildings) }
RoomRecs == { Room(rooms[i]) : i \in 1 .. Len(rooms) }
AssetRecs == { Asset(assets[i]) : i \in 1 .. Len(assets) }

NamedBuildings(name) == { b \in BuildingRecs : b.name = name }

UniqueNames ==
    \A i, j \in 1 .. Len(buildings) :
        buildings[i][2] = buildings[j][2] => i = j

DuplicateRejected ==
    \A a \in BuildingInputs :
        (add_building(a.name, a) /\ NamedBuildings(a.name) # {})
        => /\ ret'.status = "IntegrityError"
           /\ tables' = tables
           /\ Cardinality({ i \in 1 .. Len(buildings') : buildings'[i][2] = a.name }) = 1

\* C1: no two rows of the buildings table ever have the same name, and
\* add_building with a name that already exists fails with a constraint
\* violation, adds no row and leaves exactly one building with that name.
C1_UniqueBuildingNames == [](UniqueNames) /\ [][DuplicateRejected]_vars

\* C1 witness: a duplicate registration has just been rejected
C1_Witness ==
    /\ call.op = "add_building"
    /\ ret.status = "IntegrityError"
    /\ Cardinality(NamedBuildings(call.name)) = 1

UnknownBuildingRejected ==
    \A bn \in BuildingNames, a \in RoomInputs :
        (add_room(bn, a.room_name, a) /\ NamedBuildings(bn) = {})
        => /\ ret'.status = "ValueError"
           /\ ret'.value = <<"Building '", bn, "' not found">>
           /\ tables' = tables

\* C2: add_room under a building name that matches no building raises
\* ValueError "Building '<name>' not found" and leaves the three tables
\* exactly as they were.
C2_AddRoomUnknownBuilding == [][UnknownBuildingRejected]_vars

\* C2 witness: add_room has just failed on a store that holds other
\* buildings and rooms
C2_Witness ==
    /\ call.op = "add_room"
    /\ ret.status = "ValueError"
    /\ Len(buildings) > 0
    /\ Len(rooms) > 0

\* C3: every room's building_id is the id of an existing building, and
\* that building bears the name passed to the add_room call that created
\* the room.
C3_RoomReferencesBuilding ==
    \A r \in RoomRecs :
        /\ Cardinality({ b \in BuildingRecs : b.id = r.building_id }) = 1
        /\ \E i \in 1 .. Len(created.rooms) :
              /\ created.rooms[i].rec.id = r.id
              /\ \E b \in BuildingRecs :
                    /\ b.id = r.building_id
                    /\ b.name = created.rooms[i].call.building_name

\* C3 witness: two buildings, a room in the second one, after failed and
\* successful calls
C3_Witness ==
    /\ Len(buildings) = 2
    /\ \E r \in RoomRecs : r.building_id = buildings[2][1]
    /\ Len(assets) > 0
\* C4: status() reports the number of successful add_building calls, of
\* successful add_room calls (all of them available) and of add_asset
\* calls; failed calls change no count.
C4_StatusCounts ==
    call.op = "status" =>
        /\ ret.status = "ok"
        /\ ret.value.active_buildings = Len(created.buildings)
        /\ ret.value.total_rooms = Len(created.rooms)
        /\ ret.value.total_assets = Len(created.assets)
        /\ ret.value.available_rooms = ret.value.total_rooms

\* C4 witness: status() with a different count in every table
C4_Witness ==
    /\ call.op = "status"
    /\ ret.value.active_buildings = 2
    /\ ret.value.total_rooms = 1
    /\ ret.value.total_assets = 1

\* the rooms of the building of this name
RoomsOf(name) ==
    { r \in RoomRecs : \E b \in NamedBuildings(name) : r.building_id = b.id }

NoDuplicates(s) == \A i, j \in 1 .. Len(s) : s[i] = s[j] => i = j

ListRoomsFiltered(name) ==
    /\ NoDuplicates(ret.value)
    /\ Range(ret.value) = RoomsOf(name)
    /\ \A r \in Range(ret.value) : r.status = "available"
    /\ NamedBuildings(name) = {} => ret.value = <<>>

ListRoomsUnfiltered ==
    /\ NoDuplicates(ret.value)
    /\ Range(ret.value) = RoomRecs

\* C5 as stated: list_rooms(name) returns the empty sequence when the name
\* matches no building and exactly the rooms of the building when it
\* matches one, for every name given, the empty string included; without
\* a filter it returns all rooms.
C5_ListRoomsAnyName ==
    call.op = "list_rooms" =>
        /\ ret.status = "ok"
        /\ IF call.building_name = None
           THEN ListRoomsUnfiltered
           ELSE ListRoomsFiltered(call.building_name[1])

\* C5 amended: the same for every non-empty name; for the empty string,
\* as for no filter, list_rooms returns all rooms of the store.
C5_ListRoomsNonEmptyName ==
    call.op = "list_rooms" =>
        /\ ret.status = "ok"
        /\ IF call.building_name = None \/ call.building_name = Some("")
           THEN ListRoomsUnfiltered
           ELSE ListRoomsFiltered(call.building_name[1])

\* C5 witness: a filtered listing that returns some rooms and not all
C5_Witness ==
    /\ call.op = "list_rooms"
    /\ call.building_name \notin {None, Some("")}
    /\ ret.value # <<>>
    /\ Range(ret.value) # RoomRecs

CreatedRecs(t) == { created[t][i].rec : i \in 1 .. Len(created[t]) }

ExportMatchesCreated(v) ==
    /\ Len(v.buildings) = Len(created.buildings)
    /\ Len(v.rooms) = Len(created.rooms)
    /\ Len(v.assets) = Len(created.assets)
    /\ Range(v.buildings) = CreatedRecs("buildings")
    /\ Range(v.rooms) = CreatedRecs("rooms")
    /\ Range(v.assets) = CreatedRecs("assets")
    /\ \A b \in Range(v.buildings) : b.active = 1
    /\ \A r \in Range(v.rooms) : r.status = "available"

ExportStep ==
    export_data =>
        /\ ret'.status = "ok"
        /\ ExportMatchesCreated(ret'.value)
        /\ tables' = tables
        /\ call.op = "export_data" =>
              /\ ret'.value.buildings = ret.value.buildings
              /\ ret'.value.rooms = ret.value.rooms
              /\ ret'.value.assets = ret.value.assets

\* C6: export_data() returns exactly the records the successful add_*
\* calls returned, field by field (active = 1, status = "available"),
\* changes no table, and a second export with no mutating call in between
\* returns the same buildings, rooms and assets.
C6_ExportRoundTrip == [][ExportStep]_vars

\* C6 witness: an export of all three kinds of record, made right after
\* an earlier export at an earlier time
C6_Witness ==
    /\ call.op = "export_data"
    /\ ret.value.buildings # <<>>
    /\ ret.value.rooms # <<>>
    /\ ret.value.assets # <<>>
    /\ ret.value.exported_at > 0
    /\ \E b \in Range(ret.value.buildings) : b.address # ""

IdsOf(rows) == { rows[i][1] : i \in 1 .. Len(rows) }

IdsUniquePositive(rows) ==
    /\ \A i \in 1 .. Len(rows) : rows[i][1] \in Nat \ {0}
    /\ \A i, j \in 1 .. Len(rows) : rows[i][1] = rows[j][1] => i = j

\* rows keep their ids, and a new row's id exceeds every id ever assigned
IdsStep(rows, rowsAfter, issued) ==
    /\ Len(rowsAfter) >= Len(rows)
    /\ \A i \in 1 .. Len(rows) : rowsAfter[i][1] = rows[i][1]
    /\ \A i \in (Len(rows) + 1) .. Len(rowsAfter) :
          \A old \in IdsOf(rows) \cup issued : rowsAfter[i][1] > old

IssuedIds(t) == { created[t][i].rec.id : i \in 1 .. Len(created[t]) }

\* C7: ids are positive and unique within a table, an existing row never
\* changes its id, and every new id is greater than every id assigned
\* before in that table, failed calls included.
C7_IdsStableAndIncreasing ==
    /\ [](IdsUniquePositive(buildings) /\ IdsUniquePositive(rooms)
            /\ IdsUniquePositive(assets))
    /\ [][/\ IdsStep(buildings, buildings', IssuedIds("buildings"))
          /\ IdsStep(rooms, rooms', IssuedIds("rooms"))
          /\ IdsStep(assets, assets', IssuedIds("assets"))]_vars

\* C7 witness: a second room created after a failed add_room and a failed
\* add_building
C7_Witness ==
    /\ Len(rooms) = 2
    /\ Len(buildings) = 2
    /\ call.op = "add_building"
    /\ ret.status = "IntegrityError"

\* C8: list_buildings() returns the active buildings in increasing id
\* order, which are all the buildings registered, in registration order,
\* each with id > 0 and active = 1.
C8_ListBuildings ==
    call.op = "list_buildings" =>
        /\ ret.status = "ok"
        /\ Range(ret.value) = { b \in BuildingRecs : b.active = 1 }
        /\ \A i, j \in 1 .. Len(ret.value) :
              i < j => ret.value[i].id < ret.value[j].id
        /\ ret.value = [i \in 1 .. Len(created.buildings) |-> created.buildings[i].rec]
        /\ \A b \in Range(ret.value) : b.id > 0 /\ b.active = 1

\* C8 witness: a listing of two buildings
C8_Witness ==
    /\ call.op = "list_buildings"
    /\ Len(ret.value) = 2

AddAssetInserts ==
    \A a \in AssetInputs :
        add_asset(a.room_id, a.name, a)
        => /\ ret'.status = "ok"
           /\ Len(assets') = Len(assets) + 1
           /\ SubSeq(assets', 1, Len(assets)) = assets
           /\ assets'[Len(assets')][2] = a.room_id
           /\ ret'.value.room_id = a.room_id
           /\ buildings' = buildings
           /\ rooms' = rooms

\* C9: add_asset succeeds for every room_id, also one that matches no
\* room, adds exactly one asset row with that room_id and leaves the
\* buildings and rooms tables unchanged.
C9_AddAssetUnconditional == [][AddAssetInserts]_vars

\* C9 witness: an asset whose room_id is the id of no room, beside a room
\* that exists
C9_Witness ==
    /\ call.op = "add_asset"
    /\ ret.status = "ok"
    /\ Len(rooms) > 0
    /\ ret.value.room_id # 0
    /\ ret.value.room_id \notin IdsOf(rooms)
    /\ ret.value \in AssetRecs

\* C10: list_assets(room_id) returns exactly the assets stored with that
\* room_id when it is non-zero, and all assets when it is None or 0.
C10_ListAssets ==
    call.op = "list_assets" =>
        /\ ret.status = "ok"
        /\ NoDuplicates(ret.value)
        /\ IF call.room_id = None \/ call.room_id = Some(0)
           THEN Range(ret.value) = AssetRecs
           ELSE Range(ret.value) = { a \in AssetRecs : a.room_id = call.room_id[1] }

\* C10 witness: list_assets(0) on a store with an asset in room 0 and an
\* asset in another room returns both
C10_Witness ==
    /\ call.op = "list_assets"
    /\ call.room_id = Some(0)
    /\ \E a, b \in Range(ret.value) : a.room_id = 0 /\ b.room_id # 0
====
